---- MODULE Spec2Model ----
(***************************************************************************)
(* Incremental Bezier curve fitting (beziyay, main.ts): startCurve /       *)
(* addToCurve over the module-level curve.                                 *)
(*                                                                         *)
(* Numbers.  The program computes in IEEE doubles.  Here a number is an    *)
(* integer count of 1/Scale units (fixed point, divisions rounded to the   *)
(* nearest unit), and a point is [x, y, nan]: nan marks the {NaN, NaN}     *)
(* that getUnitVector yields for the zero vector.  Cells and values of the *)
(* distance field are whole pixels, as roundVec leaves them.               *)
(***************************************************************************)
EXTENDS Integers, Sequences, FiniteSets, TLC

\* ------------------------------------------------------------ constants
MAX_ERROR == 2
FIELD_RADIUS == 9
NUM_SAMPLE_POINTS == 9
MAX_ITERATIONS == 50
MAX_CORNER_ANGLE == 80
RADIAL_SIMPLIFICATION == 1
SHOULD_USE_NEW_CORNER_FINDER == TRUE
SHOULD_USE_MY_FORCE_VECTORS == TRUE

UpdateStatus == [SUCCESS |-> 1, FAIL_CORNER |-> 2, FAIL_MAXED |-> 3]
\* update_status of a segment no refinement has touched (undefined in the program)
Unset == 0

\* ------------------------------------------------------------ bounds
\* units per pixel of the fixed-point numbers
Scale == 1000
\* addToCurve calls explored after a startCurve
MaxAdds == 2

\* ------------------------------------------------------------ arithmetic
Abs(a) == IF a < 0 THEN 0 - a ELSE a
Max(a, b) == IF a > b THEN a ELSE b
\* a / b to the nearest integer (b > 0), halves upward
RDiv(a, b) == (2 * a + b) \div (2 * b)
\* a / k truncated toward zero (k > 0)
TDiv(a, k) == IF a >= 0 THEN a \div k ELSE 0 - ((0 - a) \div k)

RECURSIVE SqrtIter(_, _)
SqrtIter(n, r) ==
    LET r2 == (r + n \div r) \div 2
    IN  IF r2 >= r THEN r ELSE SqrtIter(n, r2)
\* floor of the square root of n >= 0
Sqrt(n) == IF n < 2 THEN n ELSE SqrtIter(n, n)

\* Math.round on a fixed-point number: the nearest whole pixel, halves upward
Round(v) == (v + Scale \div 2) \div Scale

\* ------------------------------------------------------------ vectors
Vec(x, y) == [x |-> x, y |-> y, nan |-> FALSE]
NaNVec == [x |-> 0, y |-> 0, nan |-> TRUE]
\* a whole-pixel point as a fixed-point vector
Px(x, y) == Vec(x * Scale, y * Scale)

negateVec(vec) == IF vec.nan THEN NaNVec ELSE Vec(0 - vec.x, 0 - vec.y)
\* roundVec: each component to the nearest integer; the result is in pixels
roundVec(vec) == IF vec.nan THEN NaNVec ELSE Vec(Round(vec.x), Round(vec.y))
\* sumOfSquaresVec on a whole-pixel vector
sumOfSquaresVec(vec) == vec.x * vec.x + vec.y * vec.y
\* magnitudeVec on a whole-pixel vector, as a fixed-point number
magnitudeVec(vec) == Sqrt(sumOfSquaresVec(vec) * Scale * Scale)
addVec(a, b) == IF a.nan \/ b.nan THEN NaNVec ELSE Vec(a.x + b.x, a.y + b.y)
subVec(a, b) == addVec(a, negateVec(b))
\* multVec by the rational num/den
multVec(a, num, den) ==
    IF a.nan THEN NaNVec ELSE Vec(RDiv(a.x * num, den), RDiv(a.y * num, den))
\* divVec(a, s) = multVec(a, 1 / s) for a fixed-point scalar s > 0
divVec(a, s) == multVec(a, Scale, s)
equalVec(a, b) == (~a.nan) /\ (~b.nan) /\ a.x = b.x /\ a.y = b.y

\* dotProduct of two fixed-point vectors, in units of 1/Scale^2; only called
\* on vectors that are not NaN
dotProduct(a, b) == a.x * b.x + a.y * b.y

\* getMagnitude(p, p2) of two whole-pixel-valued fixed-point points
getMagnitude(p, p2) ==
    Sqrt(((p.x - p2.x) \div Scale) * ((p.x - p2.x) \div Scale) * Scale * Scale
         + ((p.y - p2.y) \div Scale) * ((p.y - p2.y) \div Scale) * Scale * Scale)

\* getUnitVector: {x / magnitude, y / magnitude}; 0/0 = NaN for the zero
\* vector.  The vector is first brought to 14..15 bits so that the squares
\* fit a machine integer; the direction is unchanged.
getUnitVector(v) ==
    IF v.nan THEN NaNVec
    ELSE LET m == Max(Abs(v.x), Abs(v.y))
         IN  IF m = 0 THEN NaNVec
             ELSE LET x == IF m < 16384 THEN v.x * (16384 \div m)
                           ELSE IF m > 32768 THEN TDiv(v.x, m \div 16384)
                           ELSE v.x
                      y == IF m < 16384 THEN v.y * (16384 \div m)
                           ELSE IF m > 32768 THEN TDiv(v.y, m \div 16384)
                           ELSE v.y
                      magnitude == Sqrt(x * x + y * y)
                  IN  Vec(RDiv(x * Scale, magnitude), RDiv(y * Scale, magnitude))

getPerpindicularUnitVector(a, b) ==
    LET delta_x == b.x - a.x
        delta_y == b.y - a.y
    IN  getUnitVector(Vec(delta_y, 0 - delta_x))

getScaledVectorDifference(uvec) ==
    IF uvec.nan THEN NaNVec ELSE Vec(uvec.x * FIELD_RADIUS, uvec.y * FIELD_RADIUS)

getDDASteps(diff) == Max(Abs(diff.x), Abs(diff.y))

\* cos(deg) in millionths, deg a multiple of ten in 0..180
CosTable == <<984808, 939693, 866025, 766044, 642788, 500000, 342020, 173648, 0>>
CosMicro(deg) ==
    IF deg = 0 THEN 1000000
    ELSE IF deg <= 90 THEN CosTable[deg \div 10]
    ELSE IF deg < 180 THEN 0 - CosTable[(180 - deg) \div 10]
    ELSE 0 - 1000000
\* radiansToDegrees(Math.acos(dot)) < deg, for dot in units of 1/Scale^2.
\* acos decreases, so the angle is below deg exactly when dot exceeds cos(deg);
\* Math.acos is NaN above 1 (the rounding of two unit vectors can carry their
\* dot product there), and NaN < deg is false.
AngleBelow(dot, deg) ==
    IF dot > Scale * Scale THEN FALSE
    ELSE dot > (CosMicro(deg) * ((Scale * Scale) \div 1000)) \div 1000

\* ------------------------------------------------------------ segments
\* constrain_to and error are optional: <<>> is undefined, <<v>> is v.
\* steps = 0 stands for a steps field never written.
initCurveSegment(x, y) ==
    [c0 |-> Vec(x, y), c1 |-> Vec(x, y), c2 |-> Vec(x, y), c3 |-> Vec(x, y),
     constrain_to |-> <<>>, error |-> <<>>, update_status |-> Unset, steps |-> 0]

EmptyMap == <<>>
initCurve == [defined |-> TRUE, segments |-> <<>>, vdmap |-> EmptyMap]
\* the module-level `let curve;` before any startCurve
UndefinedCurve == [defined |-> FALSE, segments |-> <<>>, vdmap |-> EmptyMap]

getLastSegment(curve) == curve.segments[Len(curve.segments)]
getLastPoint(segment) == segment.c3

\* copySegment: the control points, constrain_to, error || 0, update_status
copySegment(segment) ==
    [c0 |-> segment.c0, c1 |-> segment.c1, c2 |-> segment.c2, c3 |-> segment.c3,
     constrain_to |-> segment.constrain_to,
     error |-> IF segment.error = <<>> THEN 0 ELSE segment.error[1],
     update_status |-> segment.update_status]

createCurve(p) ==
    [initCurve EXCEPT !.segments = Append(@, initCurveSegment(p.x, p.y))]

\* w0(1-t)^3 + 3 w1 t(1-t)^2 + 3 w2 t^2(1-t) + w3 t^3 at t = tn/td.  Each
\* product w * k / td^3 is split into (w \div td^3) * k and the remainder's
\* share, so that no intermediate exceeds a machine integer.
singleComponentBezier(tn, td, w0, w1, w2, w3) ==
    LET u == td - tn
        d == td * td * td
        k0 == u * u * u
        k1 == 3 * tn * u * u
        k2 == 3 * tn * tn * u
        k3 == tn * tn * tn
    IN  (w0 \div d) * k0 + (w1 \div d) * k1 + (w2 \div d) * k2 + (w3 \div d) * k3
        + RDiv((w0 % d) * k0 + (w1 % d) * k1 + (w2 % d) * k2 + (w3 % d) * k3, d)

getPointAlongCurve(curve, tn, td) ==
    IF curve.c0.nan \/ curve.c1.nan \/ curve.c2.nan \/ curve.c3.nan THEN NaNVec
    ELSE Vec(singleComponentBezier(tn, td, curve.c0.x, curve.c1.x, curve.c2.x, curve.c3.x),
             singleComponentBezier(tn, td, curve.c0.y, curve.c1.y, curve.c2.y, curve.c3.y))

\* variant of getCurveEndTangent: the tangent taken from c3 to itself
getCurveEndTangentAtEnd(curve) ==
    LET endpoint == curve.c3
        control_point == curve.c3
    IN  Vec(3 * (control_point.x - endpoint.x), 3 * (control_point.y - endpoint.y))

getCurveEndTangent(curve) ==
    LET endpoint == curve.c3
        control_point == curve.c2
    IN  Vec(3 * (control_point.x - endpoint.x), 3 * (control_point.y - endpoint.y))

getSegmentMidpoint(segment) ==
    addVec(divVec(subVec(segment.c3, segment.c0), 2 * Scale), segment.c0)

\* ------------------------------------------------------------ corner detector
\* A NaN tangent (the curve point at 0.95 on c3) makes the angle NaN, and
\* NaN < MAX_CORNER_ANGLE is false.
checkCornerTangent(curveSegment) ==
    IF SHOULD_USE_NEW_CORNER_FINDER
    THEN getUnitVector(subVec(getPointAlongCurve(curveSegment, 19, 20), curveSegment.c3))
    ELSE getUnitVector(getCurveEndTangent(curveSegment))

\* variant of checkCorner: the angle compared with MAX_CORNER_ANGLE + 20
checkCornerWide(curveSegment, point) ==
    IF equalVec(curveSegment.c0, curveSegment.c3) THEN FALSE
    ELSE LET tan == checkCornerTangent(curveSegment)
             new_segment == getUnitVector(Vec(point.x - curveSegment.c3.x,
                                              point.y - curveSegment.c3.y))
         IN  IF tan.nan \/ new_segment.nan THEN FALSE
             ELSE AngleBelow(dotProduct(tan, new_segment), MAX_CORNER_ANGLE + 20)

checkCorner(curveSegment, point) ==
    IF equalVec(curveSegment.c0, curveSegment.c3) THEN FALSE
    ELSE LET tan == checkCornerTangent(curveSegment)
             new_segment == getUnitVector(Vec(point.x - curveSegment.c3.x,
                                              point.y - curveSegment.c3.y))
         IN  IF tan.nan \/ new_segment.nan THEN FALSE
             ELSE AngleBelow(dotProduct(tan, new_segment), MAX_CORNER_ANGLE)

\* ------------------------------------------------------------ distance field
\* curve.vdmap[x][y] is modelled as a function on the cells <<x, y>> written so
\* far; a cell outside its domain is undefined in the program.
Closer(old, new) == IF sumOfSquaresVec(old) < sumOfSquaresVec(new) THEN old ELSE new

\* one write of lines 151-160: closer wins, a tie takes the new value
WriteCell(vdmap, cell, val) ==
    IF cell \in DOMAIN vdmap
    THEN [vdmap EXCEPT ![cell] = Closer(@, val)]
    ELSE (cell :> val) @@ vdmap

\* the inner loop, for (j = 0; j < vert_steps; j++), on the loop's variables
RECURSIVE vertLoop(_, _, _)
vertLoop(s, vert_steps, vert_increment) ==
    IF s.j * Scale >= vert_steps THEN s.vdmap
    ELSE LET at == roundVec(s.current_location)
         IN  vertLoop([vdmap |-> WriteCell(s.vdmap, <<at.x, at.y>>, roundVec(s.current_val)),
                       j |-> s.j + 1,
                       current_location |-> addVec(s.current_location, vert_increment),
                       current_val |-> addVec(s.current_val, vert_increment)],
                      vert_steps, vert_increment)

\* the outer loop, for (i = 0; i < horiz_steps; i++), on the loop's variables
RECURSIVE horizLoop(_, _, _, _, _, _)
horizLoop(s, dist, vert_steps, vert_increment, horiz_steps, horiz_increment) ==
    IF s.i * Scale >= horiz_steps THEN s.vdmap
    ELSE horizLoop([vdmap |-> vertLoop([vdmap |-> s.vdmap, j |-> 0,
                                        current_location |-> s.current_horiz_location,
                                        current_val |-> dist],
                                       vert_steps, vert_increment),
                    i |-> s.i + 1,
                    current_horiz_location |->
                        addVec(s.current_horiz_location, horiz_increment)],
                   dist, vert_steps, vert_increment, horiz_steps, horiz_increment)

\* lines 122-167: the rectangle around the line last_point -> current_point.
\* With a NaN perpendicular (the two points equal) horiz_steps is NaN and
\* i < horiz_steps is false: nothing is written.
paintStrip(vdmap, last_point, current_point) ==
    LET perp_vec == getPerpindicularUnitVector(last_point, current_point)
        dist == getScaledVectorDifference(perp_vec)
        a1 == addVec(last_point, dist)
        b1 == addVec(current_point, dist)
        vert_diff == negateVec(multVec(dist, 2, 1))
        vert_steps == getDDASteps(vert_diff)
        vert_increment == divVec(vert_diff, vert_steps)
        horiz_diff == subVec(b1, a1)
        horiz_steps == getDDASteps(horiz_diff)
        horiz_increment == divVec(horiz_diff, horiz_steps)
    IN  IF perp_vec.nan THEN vdmap
        ELSE horizLoop([vdmap |-> vdmap, i |-> 0, current_horiz_location |-> a1],
                       dist, vert_steps, vert_increment, horiz_steps, horiz_increment)

\* lines 171-186: the square cap at the end point.  Each cell of the square is
\* written exactly once, so the two loops are one function over the cells.
paintEndCap(vdmap, current_point) ==
    LET px == current_point.x \div Scale
        py == current_point.y \div Scale
        upperLeftPoint == Vec(px - FIELD_RADIUS, py - FIELD_RADIUS)
        bottomRightPoint == Vec(px + FIELD_RADIUS, py + FIELD_RADIUS)
        cap == (upperLeftPoint.x .. bottomRightPoint.x - 1)
               \X (upperLeftPoint.y .. bottomRightPoint.y - 1)
        val(c) == Vec(c[1] - px, c[2] - py)
    IN  [c \in (DOMAIN vdmap) \cup cap |->
            IF c \in cap
            THEN IF c \in DOMAIN vdmap THEN Closer(vdmap[c], val(c)) ELSE val(c)
            ELSE vdmap[c]]

\* getDistanceFromPolyline, in pixels.  A missing column vdmap[x] and a missing
\* cell vdmap[x][y] both give {FIELD_RADIUS, FIELD_RADIUS}; so does a NaN point,
\* whose column is never present.
getDistanceFromPolyline(vdmap, p) ==
    IF p.nan THEN Vec(FIELD_RADIUS, FIELD_RADIUS)
    ELSE LET hasFirst == <<p.x, p.y>> \in DOMAIN vdmap
             hasSecond == <<p.x, p.y + 1>> \in DOMAIN vdmap
             val == IF hasFirst THEN vdmap[<<p.x, p.y>>]
                    ELSE Vec(FIELD_RADIUS, FIELD_RADIUS)
             second == vdmap[<<p.x, p.y + 1>>]
         IN  Vec(IF hasSecond /\ Abs(val.x) > Abs(second.x) THEN second.x ELSE val.x,
                 IF hasSecond /\ Abs(val.y) > Abs(second.y) THEN second.y ELSE val.y)

\* ------------------------------------------------------------ refiner
\* lines 200-215: the force vectors' sums over the samples t = i / NUM_SAMPLE_POINTS,
\* kept as numerators over NUM_SAMPLE_POINTS^3 (fixed point, per pixel of dist)
RECURSIVE forceLoop(_, _, _)
forceLoop(vdmap, segment, s) ==
    IF s.i >= NUM_SAMPLE_POINTS THEN s
    ELSE LET n == NUM_SAMPLE_POINTS
             i == s.i
             point == roundVec(getPointAlongCurve(segment, i, n))
             dist == getDistanceFromPolyline(vdmap, point)
             d == magnitudeVec(dist)
             modifier == IF SHOULD_USE_MY_FORCE_VECTORS /\ (10 * i < n \/ 10 * i > 9 * n)
                         THEN 10 ELSE 1
             w1 == i * (n - i) * (n - i)
             w2 == i * i * (n - i)
         IN  forceLoop(vdmap, segment,
                       [i |-> i + 1,
                        f1x |-> s.f1x + w1 * d * dist.x * modifier,
                        f1y |-> s.f1y + w1 * d * dist.y * modifier,
                        f2x |-> s.f2x + w2 * d * dist.x * modifier,
                        f2y |-> s.f2y + w2 * d * dist.y * modifier])

\* lines 245-251: the sum of the squared distances of the samples, in pixels^2
RECURSIVE errorLoop(_, _, _)
errorLoop(vdmap, segment, s) ==
    IF s.i >= NUM_SAMPLE_POINTS THEN s.error
    ELSE LET point == getPointAlongCurve(segment, s.i, NUM_SAMPLE_POINTS)
             dist == getDistanceFromPolyline(vdmap, roundVec(point))
         IN  errorLoop(vdmap, segment,
                       [i |-> s.i + 1,
                        error |-> s.error + dist.x * dist.x + dist.y * dist.y])

\* lines 216-225: the two forces of a pass, from the sums of forceLoop
forces(segment, acc) ==
    LET cube == NUM_SAMPLE_POINTS * NUM_SAMPLE_POINTS * NUM_SAMPLE_POINTS
        f1a == Vec(RDiv(acc.f1x, cube), RDiv(acc.f1y, cube))
        f2a == Vec(RDiv(acc.f2x, cube), RDiv(acc.f2y, cube))
        from_end == subVec(getSegmentMidpoint(segment), segment.c2)
        from_beginning == subVec(getSegmentMidpoint(segment), segment.c1)
    IN  [f1 |-> IF SHOULD_USE_MY_FORCE_VECTORS
                THEN subVec(f1a, multVec(from_beginning, 3, 100)) ELSE f1a,
         f2 |-> IF SHOULD_USE_MY_FORCE_VECTORS
                THEN subVec(f2a, multVec(from_end, 3, 100)) ELSE f2a]

\* lines 231-233: f1 projected on constrain_to, when the segment has one
constrainForce(segment, f1) ==
    IF segment.constrain_to # <<>>
    THEN LET c == segment.constrain_to[1]
         IN  IF c.nan \/ f1.nan THEN NaNVec
             ELSE multVec(c, RDiv(dotProduct(c, f1), Scale), Scale)
    ELSE f1

\* lines 237-241: the inner control points moved against the forces
moveControls(segment, f) ==
    [segment EXCEPT
        !.c1 = subVec(@, multVec(constrainForce(segment, f.f1), 6, NUM_SAMPLE_POINTS)),
        !.c2 = subVec(@, multVec(f.f2, 6, NUM_SAMPLE_POINTS))]

\* lines 245-256: the error of the moved segment and the pass counted
measure(vdmap, moved, steps) ==
    [moved EXCEPT
        !.error = <<RDiv(errorLoop(vdmap, moved, [i |-> 0, error |-> 0]) * Scale,
                         NUM_SAMPLE_POINTS)>>,
        !.steps = steps + 1]

\* one pass of the body of while (true), lines 192-256
refineStep(vdmap, segment, steps) ==
    measure(vdmap,
            moveControls(segment,
                         forces(segment,
                                forceLoop(vdmap, segment,
                                          [i |-> 0, f1x |-> 0, f1y |-> 0,
                                           f2x |-> 0, f2y |-> 0]))),
            steps)

\* the loop's exit test, line 260
refineDone(segment) ==
    segment.error[1] < MAX_ERROR * Scale \/ segment.steps > MAX_ITERATIONS

\* while (true) { ... if (error < MAX_ERROR || steps > MAX_ITERATIONS) break; }
RECURSIVE refineLoop(_, _, _)
\* the test at the end of a pass that left the segment as next
refineNext(vdmap, next) ==
    IF refineDone(next) THEN next ELSE refineLoop(vdmap, next, next.steps)

refineLoop(vdmap, segment, steps) ==
    refineNext(vdmap, refineStep(vdmap, segment, steps))

\* variant of resetSegment: c2 left as the loop moved it
resetSegmentKeepingC2(segment, og_controls) ==
    [segment EXCEPT !.c0 = og_controls.c0, !.c1 = og_controls.c1,
                    !.c3 = og_controls.c3,
                    !.error = <<og_controls.error>>,
                    !.constrain_to = og_controls.constrain_to,
                    !.update_status = UpdateStatus.FAIL_MAXED]

\* lines 265-274: the reset of a failed segment; steps is not reset
resetSegment(segment, og_controls) ==
    [segment EXCEPT !.c0 = og_controls.c0, !.c1 = og_controls.c1,
                    !.c2 = og_controls.c2, !.c3 = og_controls.c3,
                    !.error = <<og_controls.error>>,
                    !.constrain_to = og_controls.constrain_to,
                    !.update_status = UpdateStatus.FAIL_MAXED]

\* lines 113-117: the segment stretched to the new point
extendSegment(segment, current_point) ==
    LET last_point == getLastPoint(segment)
    IN  [segment EXCEPT
           !.c3 = Vec(current_point.x, current_point.y),
           !.c2 = Vec(segment.c2.x + current_point.x - last_point.x,
                      segment.c2.y + current_point.y - last_point.y)]

setLastSegment(curve, segment) ==
    [curve EXCEPT !.segments[Len(curve.segments)] = segment]

\* The record kept of one updateDistanceField call: the segment as the call
\* found it and as it left it, whether the corner detector fired, whether the
\* field was empty on entry, the point, and the passes of the refine loop.
attemptOf(curve, current_point, after, corner) ==
    [index |-> Len(curve.segments), before |-> getLastSegment(curve), after |-> after,
     corner |-> corner, cleared |-> (DOMAIN curve.vdmap = {}),
     point |-> current_point,
     passes |-> IF corner THEN 0 ELSE after.steps]

\* lines 108-111: the corner exit; failed is the segment with its new status
cornerExit(curve, current_point, failed) ==
    [curve |-> setLastSegment(curve, failed), segment |-> failed,
     attempt |-> attemptOf(curve, current_point, failed, TRUE)]

\* lines 122-186: the field after the strip and the end cap
paintField(curve, current_point) ==
    paintEndCap(paintStrip(curve.vdmap, getLastPoint(getLastSegment(curve)),
                           current_point),
                current_point)

\* variant of settle: the status not written on success
settleWithoutStatus(fitted, og_controls) ==
    IF fitted.steps > MAX_ITERATIONS
    THEN resetSegment(fitted, og_controls)
    ELSE fitted

\* lines 263-277: the status of the fitted segment, reset when the loop gave up
settle(fitted, og_controls) ==
    IF fitted.steps > MAX_ITERATIONS
    THEN resetSegment(fitted, og_controls)
    ELSE [fitted EXCEPT !.update_status = UpdateStatus.SUCCESS]

\* the exit of lines 274 and 277; final is the segment returned
fitExit(curve, current_point, vdmap, final) ==
    [curve |-> setLastSegment([curve EXCEPT !.vdmap = vdmap], final),
     segment |-> final,
     attempt |-> attemptOf(curve, current_point, final, FALSE)]

\* lines 113-277 on the painted field vdmap
fitOn(curve, current_point, vdmap) ==
    fitExit(curve, current_point, vdmap,
            settle(refineLoop(vdmap,
                              extendSegment(getLastSegment(curve), current_point), 0),
                   copySegment(getLastSegment(curve))))

\* updateDistanceField.  The result holds the curve as the call leaves it, the
\* segment it returns, and the record of the attempt.
updateDistanceField(curve, current_point) ==
    IF checkCorner(getLastSegment(curve), current_point)
    THEN cornerExit(curve, current_point,
                    [getLastSegment(curve) EXCEPT
                        !.update_status = UpdateStatus.FAIL_CORNER])
    ELSE fitOn(curve, current_point, paintField(curve, current_point))

\* ------------------------------------------------------------ orchestrator
\* a whole-pixel vector (roundVec's result) as a fixed-point point
Fixed(v) == IF v.nan THEN NaNVec ELSE Px(v.x, v.y)

\* variant of needsNewSegment: without the test for undefined
needsNewSegmentUnlessSuccess(last_segment) ==
    UpdateStatus.SUCCESS # last_segment.update_status

\* lines 79-82: does the stored status ask for a new segment
needsNewSegment(last_segment) ==
    UpdateStatus.SUCCESS # last_segment.update_status
    /\ last_segment.update_status # Unset

\* variant of newSegment: the new segment placed at the last segment's start
newSegmentAtStart(last_segment) ==
    LET new_segment == initCurveSegment(last_segment.c0.x, last_segment.c0.y)
    IN  IF UpdateStatus.FAIL_MAXED = last_segment.update_status
        THEN [new_segment EXCEPT
                !.constrain_to = <<getUnitVector(getCurveEndTangent(last_segment))>>]
        ELSE new_segment

\* lines 83-91: the segment pushed after a FAIL_CORNER or a FAIL_MAXED
newSegment(last_segment) ==
    LET last_point == getLastPoint(last_segment)
        new_segment == initCurveSegment(last_point.x, last_point.y)
    IN  IF UpdateStatus.FAIL_MAXED = last_segment.update_status
        THEN [new_segment EXCEPT
                !.constrain_to = <<getUnitVector(getCurveEndTangent(last_segment))>>]
        ELSE new_segment

\* variant of tooClose: the distance taken from the segment's start
tooCloseToStart(new_point, last_segment) ==
    getMagnitude(new_point, last_segment.c0) < RADIAL_SIMPLIFICATION * Scale

\* line 76: the point is too close to the last one
tooClose(new_point, last_segment) ==
    getMagnitude(new_point, getLastPoint(last_segment)) < RADIAL_SIMPLIFICATION * Scale

\* lines 83-95: the curve handed to updateDistanceField
prepare(curve, last_segment) ==
    IF needsNewSegment(last_segment)
    THEN [curve EXCEPT !.vdmap = EmptyMap,
                       !.segments = Append(@, newSegment(last_segment))]
    ELSE curve

\* line 98: addToCurveImpl's result from updateDistanceField's result r
implReturn(last_segment, r) ==
    [curve |-> r.curve, segment |-> r.segment, dup |-> FALSE,
     pushedOn |-> IF needsNewSegment(last_segment)
                  THEN <<last_segment.update_status>> ELSE <<>>,
     attempts |-> <<r.attempt>>]

\* addToCurveImpl.  pushedOn lists the stored status on which a segment was
\* pushed (at most one), attempts the record of the refinement it ran (at
\* most one).
addToCurveImpl(curve, new_point) ==
    IF tooClose(new_point, getLastSegment(curve))
    THEN [curve |-> curve, segment |-> getLastSegment(curve), dup |-> TRUE,
          pushedOn |-> <<>>, attempts |-> <<>>]
    ELSE implReturn(getLastSegment(curve),
                    updateDistanceField(prepare(curve, getLastSegment(curve)),
                                        new_point))

\* line 21: the return of the second addToCurveImpl call
secondReturn(first, second, rounded_coord) ==
    [curve |-> second.curve, segment |-> second.segment,
     dup |-> first.dup,
     pushedOn |-> first.pushedOn \o second.pushedOn,
     attempts |-> first.attempts \o second.attempts,
     rounded |-> rounded_coord, calls |-> 2]

\* variant of retry: the first call's segment returned whatever its status
noRetry(first, rounded_coord) ==
    [curve |-> first.curve, segment |-> first.segment,
     dup |-> first.dup, pushedOn |-> first.pushedOn,
     attempts |-> first.attempts,
     rounded |-> rounded_coord, calls |-> 1]

\* lines 18-21: the first call's segment returned on SUCCESS, else a second call
retry(first, rounded_coord) ==
    IF first.segment.update_status = UpdateStatus.SUCCESS
    THEN [curve |-> first.curve, segment |-> first.segment,
          dup |-> first.dup, pushedOn |-> first.pushedOn,
          attempts |-> first.attempts,
          rounded |-> rounded_coord, calls |-> 1]
    ELSE secondReturn(first, addToCurveImpl(first.curve, rounded_coord),
                      rounded_coord)

\* addToCurve, lines 15-22
addToCurve(curve, coord) ==
    retry(addToCurveImpl(curve, Fixed(roundVec(coord))), Fixed(roundVec(coord)))

\* variant of startCurve: the distance field of the replaced curve kept
startCurveKeepingField(prev, coord) ==
    [createCurve(Fixed(roundVec(coord))) EXCEPT !.vdmap = prev.vdmap]

\* startCurve, lines 11-13: the value assigned to the module-level curve;
\* prev, the value it replaces, is not read
startCurve(prev, coord) == createCurve(Fixed(roundVec(coord)))

\* ------------------------------------------------------------ state machine
\* the coordinates the input source delivers (fixed point)
Coords ==
    { Vec(0, 0), Vec(10 * Scale, 0), Vec(10 * Scale, 10 * Scale),
      Vec((56 * Scale) \div 10, 0 - (84 * Scale) \div 10),
      Vec((105 * Scale) \div 10, 0 - (12 * Scale) \div 10) }

VARIABLES
    curve,      \* the module-level curve
    returned,   \* <<segment>> returned by the last addToCurve, <<>> before one
    call,       \* what the last call did
    stroke,     \* the coordinates delivered since the last startCurve
    earlier,    \* TRUE once a stroke came before the current one
    solo,       \* the curve of a module instance that saw the current stroke only
    soloReturned \* what that instance's last addToCurve returned

vars == <<curve, returned, call, stroke, earlier, solo, soloReturned>>

NoCall == [op |-> "none", coord |-> Vec(0, 0), rounded |-> Vec(0, 0), dup |-> FALSE,
           pushedOn |-> <<>>, attempts |-> <<>>, calls |-> 0]

Init ==
    /\ curve = UndefinedCurve
    /\ returned = <<>>
    /\ call = NoCall
    /\ stroke = <<>>
    /\ earlier = FALSE
    /\ solo = UndefinedCurve
    /\ soloReturned = <<>>

StartCurve(coord) ==
    /\ curve' = startCurve(curve, coord)
    /\ returned' = <<>>
    /\ call' = [NoCall EXCEPT !.op = "startCurve", !.coord = coord,
                              !.rounded = Fixed(roundVec(coord))]
    /\ stroke' = <<coord>>
    /\ earlier' = curve.defined
    /\ solo' = startCurve(UndefinedCurve, coord)
    /\ soloReturned' = <<>>

\* what the second instance's addToCurve returns, given the result r of the
\* first's: on an equal curve the call is the same computation
soloCall(coord, r) == IF solo = curve THEN r ELSE addToCurve(solo, coord)

SoloReturn(rs) ==
    /\ solo' = rs.curve
    /\ soloReturned' = <<rs.segment>>

\* the effects of an addToCurve call whose result is r
Return(coord, r) ==
    /\ curve' = r.curve
    /\ returned' = <<r.segment>>
    /\ call' = [op |-> "addToCurve", coord |-> coord, rounded |-> r.rounded,
                dup |-> r.dup, pushedOn |-> r.pushedOn,
                attempts |-> r.attempts, calls |-> r.calls]
    /\ SoloReturn(soloCall(coord, r))

\* addToCurve on an undefined curve throws before it changes anything
AddToCurve(coord) ==
    /\ curve.defined
    /\ Len(stroke) <= MaxAdds
    /\ Return(coord, addToCurve(curve, coord))
    /\ stroke' = Append(stroke, coord)
    /\ UNCHANGED earlier

Next ==
    \/ \E coord \in Coords : StartCurve(coord)
    \/ \E coord \in Coords : AddToCurve(coord)

Spec == Init /\ [][Next]_vars

\* ------------------------------------------------------------ properties
\* C1: an addToCurve whose rounded point lies closer than
\* RADIAL_SIMPLIFICATION to the active segment's c3 is a no-op: the curve
\* (segment count, every segment's fields, the distance field) is unchanged
\* and the active segment is returned, whatever its stored status.
DuplicateIsNoOp ==
    [][(/\ call'.op = "addToCurve"
        /\ curve.defined
        /\ LET p == roundVec(call'.coord)
               end == getLastSegment(curve).c3
               dx == p.x * Scale - end.x
               dy == p.y * Scale - end.y
           IN  dx * dx + dy * dy
                  < RADIAL_SIMPLIFICATION * RADIAL_SIMPLIFICATION * Scale * Scale)
       => (curve' = curve /\ returned' = <<getLastSegment(curve)>>)]_vars

\* a duplicate was delivered to a segment that an earlier point had fitted
DuplicateSuppressed ==
    /\ call.op = "addToCurve"
    /\ call.dup
    /\ Len(stroke) >= 3
    /\ roundVec(stroke[Len(stroke)]) = roundVec(stroke[Len(stroke) - 1])
    /\ returned[1].update_status = UpdateStatus.SUCCESS

\* C2: over addToCurve calls the number of segments never decreases, and a
\* segment is appended only behind a segment left FAIL_CORNER or FAIL_MAXED:
\* never on a stored status of Unset or SUCCESS.
SegmentsGrowOnlyAfterFailure ==
    [][(call'.op = "addToCurve" /\ curve.defined)
       => /\ Len(curve'.segments) >= Len(curve.segments)
          /\ Len(curve'.segments) = Len(curve.segments) + Len(call'.pushedOn)
          /\ \A i \in DOMAIN call'.pushedOn :
                call'.pushedOn[i] \in {UpdateStatus.FAIL_CORNER, UpdateStatus.FAIL_MAXED}
          /\ \A k \in (Len(curve.segments) + 1) .. Len(curve'.segments) :
                curve'.segments[k - 1].update_status
                   \in {UpdateStatus.FAIL_CORNER, UpdateStatus.FAIL_MAXED}]_vars

\* a call appended a segment
SegmentPushed ==
    /\ call.op = "addToCurve"
    /\ call.pushedOn # <<>>
    /\ Len(curve.segments) >= 2

\* C3: on a non-duplicate point the refinement runs once when the first
\* attempt ends SUCCESS and exactly twice otherwise; the second attempt takes
\* the same rounded point, finds a fresh segment (all four control points at
\* the failed segment's end, no status, an empty distance field), and its
\* result is what addToCurve returns.
RetryOnceOnFailure ==
    (call.op = "addToCurve" /\ ~call.dup)
    => LET a == call.attempts
       IN  /\ Len(a) \in {1, 2}
           /\ Len(a) = call.calls
           /\ (Len(a) = 1) <=> (a[1].after.update_status = UpdateStatus.SUCCESS)
           /\ a[1].point = call.rounded
           /\ Len(a) = 2
              => /\ a[2].point = call.rounded
                 /\ a[2].cleared
                 /\ a[2].index = a[1].index + 1
                 /\ a[2].before.c0 = a[1].after.c3
                 /\ a[2].before.c1 = a[1].after.c3
                 /\ a[2].before.c2 = a[1].after.c3
                 /\ a[2].before.c3 = a[1].after.c3
                 /\ a[2].before.update_status = Unset
           /\ returned = <<a[Len(a)].after>>

\* a call ran the refinement a second time
RetriedOnFreshSegment ==
    /\ call.op = "addToCurve"
    /\ Len(call.attempts) = 2
    /\ call.attempts[1].after.update_status # UpdateStatus.SUCCESS

\* C4: when the corner detector fires during an addToCurve call, the segment
\* active at that moment keeps its control points and is stored FAIL_CORNER,
\* and the same call appends exactly one segment, whose c0 is that segment's c3.
CornerLeavesPriorSegment ==
    call.op = "addToCurve"
    => \A i \in DOMAIN call.attempts :
          call.attempts[i].corner
          => LET a == call.attempts[i]
                 prior == curve.segments[a.index]
             IN  /\ prior.c0 = a.before.c0
                 /\ prior.c1 = a.before.c1
                 /\ prior.c2 = a.before.c2
                 /\ prior.c3 = a.before.c3
                 /\ prior.update_status = UpdateStatus.FAIL_CORNER
                 /\ call.pushedOn = <<UpdateStatus.FAIL_CORNER>>
                 /\ Len(curve.segments) = a.index + 1
                 /\ curve.segments[a.index + 1].c0 = a.before.c3

\* the corner detector fired on a fitted segment
CornerFlagged ==
    /\ call.op = "addToCurve"
    /\ \E i \in DOMAIN call.attempts :
          /\ call.attempts[i].corner
          /\ call.attempts[i].before.update_status = UpdateStatus.SUCCESS

\* C5: an attempt that ends FAIL_MAXED leaves c0, c1, c2, c3 and constrain_to
\* as they were before the attempt: the point is not taken in, and no move of
\* the inner control points survives.
FailMaxedRestoresSegment ==
    call.op = "addToCurve"
    => \A i \in DOMAIN call.attempts :
          call.attempts[i].after.update_status = UpdateStatus.FAIL_MAXED
          => LET a == call.attempts[i]
                 stored == curve.segments[a.index]
             IN  /\ a.after.c0 = a.before.c0
                 /\ a.after.c1 = a.before.c1
                 /\ a.after.c2 = a.before.c2
                 /\ a.after.c3 = a.before.c3
                 /\ a.after.constrain_to = a.before.constrain_to
                 /\ a.after.c3 # a.point
                 /\ stored = a.after

\* an attempt gave up after the refine loop had moved the control points
FailMaxedHappened ==
    /\ call.op = "addToCurve"
    /\ \E i \in DOMAIN call.attempts :
          /\ call.attempts[i].after.update_status = UpdateStatus.FAIL_MAXED
          /\ call.attempts[i].passes > 1
          /\ call.attempts[i].before.c1 # call.attempts[i].before.c0

\* C6: no attempt executes the body of the refine loop more than
\* MAX_ITERATIONS times
PassesWithinBudget ==
    call.op = "addToCurve"
    => \A i \in DOMAIN call.attempts : call.attempts[i].passes <= MAX_ITERATIONS

\* C7: what a stroke returns, and the curve it builds, are those of a module
\* that saw this stroke only, whatever calls came before its startCurve.
StrokeIndependentOfHistory ==
    /\ curve = solo
    /\ returned = soloReturned

\* a stroke that followed another one fitted a point and pushed a segment
LaterStrokeFitted ==
    /\ earlier
    /\ call.op = "addToCurve"
    /\ ~call.dup
    /\ Len(curve.segments) >= 2

\* C8 as stated: every segment addToCurve returns has update_status SUCCESS,
\* FAIL_CORNER or FAIL_MAXED, never Unset
ReturnedStatusNeverUnset ==
    returned # <<>>
    => returned[1].update_status
          \in {UpdateStatus.SUCCESS, UpdateStatus.FAIL_CORNER, UpdateStatus.FAIL_MAXED}

\* C8: the segment addToCurve returns has update_status SUCCESS, FAIL_CORNER
\* or FAIL_MAXED once a point of the stroke rounded away from the start point;
\* while every point rounds to the start point, the segment returned is the
\* first one as createCurve left it, its status Unset.
ReturnedStatusSetAfterRealPoint ==
    returned # <<>>
    => IF \A i \in DOMAIN stroke : roundVec(stroke[i]) = roundVec(stroke[1])
       THEN /\ returned[1].update_status = Unset
            /\ returned[1] = getLastSegment(createCurve(Fixed(roundVec(stroke[1]))))
       ELSE returned[1].update_status
               \in {UpdateStatus.SUCCESS, UpdateStatus.FAIL_CORNER,
                    UpdateStatus.FAIL_MAXED}

\* addToCurve returned a segment no refinement had touched
UnsetReturned ==
    /\ call.op = "addToCurve"
    /\ returned # <<>>
    /\ returned[1].update_status = Unset

ScenarioBFlagsCorner ==
    stroke = <<Vec(0, 0), Vec(10 * Scale, 0), Vec(10 * Scale, 10 * Scale)>>
    => /\ Len(curve.segments) = 2
       /\ curve.segments[1].update_status = UpdateStatus.FAIL_CORNER
       /\ curve.segments[2].c0 = Px(10, 0)

\* C10: in Scenario B the corner detector does not flag (10,10): the one
\* attempt of the third call stretches the only segment to (10,10) and ends
\* SUCCESS; the curve keeps one segment, from (0,0) to (10,10).
ScenarioBOneSegment ==
    stroke = <<Vec(0, 0), Vec(10 * Scale, 0), Vec(10 * Scale, 10 * Scale)>>
    => /\ Len(call.attempts) = 1
       /\ ~call.attempts[1].corner
       /\ call.attempts[1].before.c3 = Px(10, 0)
       /\ call.pushedOn = <<>>
       /\ Len(curve.segments) = 1
       /\ curve.segments[1].update_status = UpdateStatus.SUCCESS
       /\ curve.segments[1].c0 = Px(0, 0)
       /\ curve.segments[1].c3 = Px(10, 10)
       /\ returned = <<curve.segments[1]>>

\* Scenario B was run
ScenarioBRun ==
    /\ stroke = <<Vec(0, 0), Vec(10 * Scale, 0), Vec(10 * Scale, 10 * Scale)>>
    /\ call.op = "addToCurve"
    /\ call.rounded = Px(10, 10)

====
